---- MODULE Spec2Model ----
(***************************************************************************)
(* Trade decision and position lifecycle engine of jinxlo/alevor.          *)
(*                                                                         *)
(* Numbers.  The program computes with Python floats (IEEE binary64,       *)
(* round to nearest, ties to even).  The model keeps that arithmetic and   *)
(* shortens the significand: a number is [m, e], standing for m * 2^e with *)
(* m odd (or m = 0, e = 0), and every arithmetic result is rounded to      *)
(* MantBits significant bits, ties to even.  The exponent is unbounded, so *)
(* there is no overflow, underflow or NaN; minus infinity is NegInf.       *)
(***************************************************************************)
EXTENDS Integers, Sequences, FiniteSets, TLC

\* Significand width of the modelled floats (binary64 has 53).
MantBits == 7

-----------------------------------------------------------------------------
(* Float arithmetic *)

RECURSIVE Pow2(_)
Pow2(n) == IF n <= 0 THEN 1 ELSE 2 * Pow2(n - 1)

RECURSIVE BitLen(_)
BitLen(n) == IF n <= 0 THEN 0 ELSE 1 + BitLen(n \div 2)

IAbs(n) == IF n < 0 THEN -n ELSE n

RECURSIVE Norm(_, _)
Norm(m, e) ==
    IF m = 0 THEN [m |-> 0, e |-> 0]
    ELSE IF m % 2 = 0 THEN Norm(m \div 2, e + 1)
    ELSE [m |-> m, e |-> e]

\* n * 2^e rounded to MantBits significant bits, ties to even.
RoundTo(n, e) ==
    LET a == IAbs(n)
        k == BitLen(a) - MantBits
    IN  IF k <= 0 THEN Norm(n, e)
        ELSE LET q    == a \div Pow2(k)
                 r    == a % Pow2(k)
                 half == Pow2(k - 1)
                 up   == r > half \/ (r = half /\ q % 2 = 1)
                 q2   == IF up THEN q + 1 ELSE q
             IN  Norm(IF n < 0 THEN -q2 ELSE q2, e + k)

\* (n1 * 2^e1) / (n2 * 2^e2) correctly rounded; n2 # 0.  The quotient is
\* computed to at least MantBits + 2 bits and a sticky bit before rounding.
Quot(n1, e1, n2, e2) ==
    LET want == MantBits + 3 + BitLen(IAbs(n2)) - BitLen(IAbs(n1))
        s    == IF want > 0 THEN want ELSE 0
        big  == IAbs(n1) * Pow2(s)
        q    == big \div IAbs(n2)
        rem  == big % IAbs(n2)
        n    == 2 * q + (IF rem = 0 THEN 0 ELSE 1)
        neg  == (n1 < 0) # (n2 < 0)
    IN  IF n1 = 0 THEN Norm(0, 0)
        ELSE RoundTo(IF neg THEN -n ELSE n, e1 - e2 - s - 1)

\* A decimal literal or an int / int true division: num / den.
Lit(num, den) == Quot(num, 0, den, 0)

FromInt(n) == RoundTo(n, 0)

Zero == FromInt(0)
One == FromInt(1)

\* -float("inf"): a record no rounded number equals (its m is even).
NegInf == [m |-> -2, e |-> 0]

IMin(a, b) == IF a <= b THEN a ELSE b

\* The two significands of x and y at their common (smaller) exponent.
Aligned(x, y) ==
    LET emin == IMin(x.e, y.e)
    IN  <<x.m * Pow2(x.e - emin), y.m * Pow2(y.e - emin), emin>>

\* Position of the leading bit of x # 0.
Top(x) == x.e + BitLen(IAbs(x.m))

\* x + y of finite x, y.  An operand below a quarter of the other's last
\* place cannot change the rounded sum.
AddFinite(x, y) ==
    IF x.m = 0 THEN y
    ELSE IF y.m = 0 THEN x
    ELSE IF x.e - y.e > 2 * MantBits + 2 THEN x
    ELSE IF y.e - x.e > 2 * MantBits + 2 THEN y
    ELSE LET al == Aligned(x, y) IN RoundTo(al[1] + al[2], al[3])

FNeg(x) == [m |-> -x.m, e |-> x.e]

FAdd(x, y) ==
    IF x = NegInf \/ y = NegInf THEN NegInf ELSE AddFinite(x, y)

FSub(x, y) ==
    IF x = NegInf THEN NegInf ELSE AddFinite(x, FNeg(y))

FMul(x, y) == RoundTo(x.m * y.m, x.e + y.e)

FDiv(x, y) == Quot(x.m, x.e, y.m, y.e)

FAbs(x) == [m |-> IAbs(x.m), e |-> x.e]

\* x < y of finite x, y.
LtFinite(x, y) ==
    IF x.m <= 0 /\ y.m > 0 THEN x.m < y.m
    ELSE IF x.m >= 0 /\ y.m <= 0 THEN FALSE
    ELSE IF x.m < 0 /\ y.m = 0 THEN TRUE
    ELSE IF Top(x) # Top(y) THEN (IF x.m > 0 THEN Top(x) < Top(y) ELSE Top(x) > Top(y))
    ELSE LET al == Aligned(x, y) IN al[1] < al[2]

FLt(x, y) ==
    IF y = NegInf THEN FALSE
    ELSE IF x = NegInf THEN TRUE
    ELSE LtFinite(x, y)

FLe(x, y) == x = y \/ FLt(x, y)

FMax(x, y) == IF FLt(x, y) THEN y ELSE x

FMin(x, y) == IF FLt(y, x) THEN y ELSE x

IsZero(x) == x.m = 0

-----------------------------------------------------------------------------
(* Inputs *)

\* Number of backend operations in one run.
MaxOps == 3

PositionIds == {"p1", "p2"}
Pairs == {"ETH/USDC"}

\* sandbox.initial_balance; the larger one has a last place of 2.
InitialBalances == {FromInt(12), FromInt(Pow2(MantBits) + 2)}
Sizes == {FromInt(0), FromInt(1), FromInt(12)}
\* Market prices are positive.
Prices == {FromInt(1), FromInt(3)}
Reserves == {<<FromInt(1000), FromInt(1000)>>}

\* sl_range.default and tp_range.default of the shipped risk configuration.
DefaultSlPct == Lit(1, 100)
DefaultTpPct == Lit(4, 100)

OpenActions ==
    [pair : Pairs, size : Sizes, entry_price : Prices,
     stop_loss_pct : {DefaultSlPct}, take_profit_pct : {DefaultTpPct}]

CloseActions == [position_id : PositionIds, exit_price : Prices]

\* What a call to the trader contract meets.
TxFaults == {"ok", "encode_raises", "send_raises"}

-----------------------------------------------------------------------------
(* Slippage model: data_layer/slippage.py *)

FeeBps == 30

\* amount_out / amount_in divides by zero for a zero amount.
SlippageRaises(amount_in, reserve_in, reserve_out) ==
    ~IsZero(reserve_in) /\ ~IsZero(reserve_out) /\ IsZero(amount_in)

\* Mutant: the guard answers the friction, slippage plus fee.
calculate_base_slippage_GuardAddsFee(amount_in, reserve_in, reserve_out, fee_bps) ==
    IF IsZero(reserve_in) \/ IsZero(reserve_out)
    THEN FAdd(Lit(1, 10), Lit(fee_bps, 10000))
    ELSE LET fee_multiplier      == FSub(One, Lit(fee_bps, 10000))
             amount_in_after_fee == FMul(amount_in, fee_multiplier)
             amount_out          == FDiv(FMul(reserve_out, amount_in_after_fee),
                                         FAdd(reserve_in, amount_in_after_fee))
             expected_price      == FDiv(reserve_out, reserve_in)
             actual_price        == FDiv(amount_out, amount_in)
         IN  FDiv(FAbs(FSub(expected_price, actual_price)), expected_price)

\* calculate_base_slippage(amount_in, reserve_in, reserve_out, fee_bps)
calculate_base_slippage(amount_in, reserve_in, reserve_out, fee_bps) ==
    IF IsZero(reserve_in) \/ IsZero(reserve_out) THEN Lit(1, 10)
    ELSE LET fee_multiplier      == FSub(One, Lit(fee_bps, 10000))
             amount_in_after_fee == FMul(amount_in, fee_multiplier)
             amount_out          == FDiv(FMul(reserve_out, amount_in_after_fee),
                                         FAdd(reserve_in, amount_in_after_fee))
             expected_price      == FDiv(reserve_out, reserve_in)
             actual_price        == FDiv(amount_out, amount_in)
         IN  FDiv(FAbs(FSub(expected_price, actual_price)), expected_price)

calculate_base_friction(amount_in, reserve_in, reserve_out, fee_bps) ==
    FAdd(calculate_base_slippage(amount_in, reserve_in, reserve_out, fee_bps),
         Lit(fee_bps, 10000))

-----------------------------------------------------------------------------
(* Execution backends and position stores *)

VARIABLES
    mode,                  \* which engine the process runs: "sandbox" or "live"
    nops,                  \* operations performed so far
    apply_slippage,        \* SimExecutor.apply_slippage
    initial_balance,       \* SimulatedState.initial_balance
    balance,               \* SimulatedState.balance
    open_positions,        \* SimulatedState.open_positions: id -> position
    closed_trades,         \* SimulatedState.closed_trades
    total_pnl,             \* SimulatedState.total_pnl
    engine_open_positions, \* EngineState.open_positions: id -> position
    last,                  \* the last call: its arguments, result and pre-state
    assigned,              \* id -> the positions ever stored under it
    scan_positions,        \* exit scan: the open positions, in insertion order
    current_prices,        \* exit scan: pair -> price
    regime_changes,        \* exit scan: pair -> new regime
    exit_logic_actions,    \* what ExitLogic.check_exits returned
    exit_detector_actions, \* what ExitDetector.check_all_exits returned
    scans_run,             \* which of the two scans have returned
    entry_input,           \* evaluate_entry: arguments, configuration, collaborators
    entry_result,          \* evaluate_entry: what the call returned and did
    pure_call,             \* a call of a pure function: arguments and result
    running,               \* TradingScheduler.running
    shutdown_requested,    \* TradingScheduler.shutdown_requested
    sched_pc,              \* where run_loop stands
    tick_pc,               \* where run_iteration stands
    tick_trace,            \* what run_iteration has done in the current tick
    exit_actions,          \* run_iteration: close actions not yet executed
    pair_index,            \* run_iteration: the pair the entry loop is at
    stop_pc,               \* where a call of stop() from another thread stands
    cooldowns,             \* EngineState.cooldowns: pair -> time of set_cooldown
    now,                   \* datetime.now(), in seconds
    cooldown_check         \* the last call of is_in_cooldown and its answer

storeVars == <<mode, nops, apply_slippage, initial_balance, balance,
               open_positions, closed_trades, total_pnl,
               engine_open_positions, last, assigned>>

exitVars == <<scan_positions, current_prices, regime_changes,
              exit_logic_actions, exit_detector_actions, scans_run>>

entryVars == <<entry_input, entry_result>>

pureVars == <<pure_call>>

loopVars == <<running, shutdown_requested, sched_pc, tick_pc, tick_trace,
              exit_actions, pair_index, stop_pc>>

cooldownVars == <<cooldowns, now, cooldown_check>>

vars == <<storeVars, exitVars, entryVars,
                   pureVars, loopVars, cooldownVars>>

simState == <<balance, open_positions, closed_trades, total_pnl>>

NoFn == [x \in {} |-> 0]

\* d[k] = v, as a dict assignment does it: insert or overwrite.
DictSet(d, k, v) == [x \in DOMAIN d \cup {k} |-> IF x = k THEN v ELSE d[x]]

\* d.pop(k, None)
DictPop(d, k) == [x \in DOMAIN d \ {k} |-> d[x]]

Snapshot ==
    [balance |-> balance, open_positions |-> open_positions,
     closed_trades |-> closed_trades, total_pnl |-> total_pnl,
     engine_open_positions |-> engine_open_positions]

NoCall ==
    [op |-> "none", id |-> "", ok |-> FALSE, raised |-> FALSE, trade |-> <<>>,
     tx |-> "", fault |-> "", size |-> Zero, price |-> Zero, pre |-> Snapshot]

Assign(id, pos) ==
    [x \in PositionIds |-> IF x = id THEN assigned[x] \cup {pos} ELSE assigned[x]]

\* The exit scans and the entry pipeline when a run does not exercise them.
ExitIdle ==
    /\ scan_positions = <<>>
    /\ current_prices = NoFn
    /\ regime_changes = NoFn
    /\ exit_logic_actions = <<>>
    /\ exit_detector_actions = <<>>
    /\ scans_run = {}

EntryIdle ==
    /\ entry_input = NoFn
    /\ entry_result = NoFn

\* No pure function called, no scheduler started, no cooldown set.
PureIdle == pure_call = NoFn

LoopIdle ==
    /\ running = FALSE
    /\ shutdown_requested = FALSE
    /\ sched_pc = "new"
    /\ tick_pc = "idle"
    /\ tick_trace = <<>>
    /\ exit_actions = <<>>
    /\ pair_index = 0
    /\ stop_pc = "idle"

CooldownIdle ==
    /\ cooldowns = NoFn
    /\ now = 0
    /\ cooldown_check = NoFn

StoreInit ==
    /\ mode \in {"sandbox", "live"}
    /\ nops = 0
    /\ apply_slippage \in (IF mode = "sandbox" THEN BOOLEAN ELSE {FALSE})
    /\ initial_balance \in (IF mode = "sandbox" THEN InitialBalances ELSE {Zero})
    /\ balance = initial_balance
    /\ open_positions = NoFn
    /\ closed_trades = <<>>
    /\ total_pnl = Zero
    /\ engine_open_positions = NoFn
    /\ last = [NoCall EXCEPT !.pre.balance = initial_balance]
    /\ assigned = [x \in PositionIds |-> {}]

\* Mutant: the balance is only required to be non-negative.
InsufficientBalance_NonNegative(bal, size) == FLt(bal, Zero)

\* SimExecutor.execute_open: the balance check.
InsufficientBalance(bal, size) == FLt(bal, size)

\* SimExecutor.execute_open: the fill price of an open.
EntryFill(slippage, action, reserves) ==
    IF slippage
    THEN FMul(action.entry_price,
              FAdd(One, calculate_base_friction(action.size, reserves[1],
                                                reserves[2], FeeBps)))
    ELSE action.entry_price

\* The position dictionary execute_open builds (ev, p and regime are audit
\* fields copied from the action and read by nothing modelled here).
NewPosition(slippage, action, reserves, position_id) ==
    [id |-> position_id, pair |-> action.pair,
     entry_price |-> EntryFill(slippage, action, reserves),
     size |-> action.size,
     stop_loss_pct |-> action.stop_loss_pct,
     take_profit_pct |-> action.take_profit_pct]

\* Mutant: the open is charged its notional, size * entry_price.
BalanceAfterAdd_Notional(bal, position) ==
    FSub(bal, FMul(position.size, position.entry_price))

\* SimulatedState.add_position: self.balance -= position.get("size", 0.0)
BalanceAfterAdd(bal, position) == FSub(bal, position.size)

\* SimExecutor.execute_close: the fill price of a close.
ExitFill(slippage, positions, action, reserves) ==
    IF slippage /\ action.position_id \in DOMAIN positions
    THEN FMul(action.exit_price,
              FSub(One, calculate_base_friction(positions[action.position_id].size,
                                                reserves[1], reserves[2], FeeBps)))
    ELSE action.exit_price

\* SimulatedState.close_position: pnl = (exit_price - entry_price) * size
ClosePnl(position, exit_price) ==
    FMul(FSub(exit_price, position.entry_price), position.size)

\* SimulatedState.close_position: pnl_pct = (exit_price / entry_price) - 1.0
ClosePnlPct(position, exit_price) ==
    FSub(FDiv(exit_price, position.entry_price), One)

\* SimulatedState.close_position: self.balance += size + pnl
BalanceAfterClose(bal, position, pnl) == FAdd(bal, FAdd(position.size, pnl))

\* SimulatedState.close_position: the closed trade, {**position, ...}.
ClosedTrade(position, exit_price) ==
    [id |-> position.id, pair |-> position.pair,
     entry_price |-> position.entry_price, size |-> position.size,
     stop_loss_pct |-> position.stop_loss_pct,
     take_profit_pct |-> position.take_profit_pct,
     exit_price |-> exit_price,
     pnl |-> ClosePnl(position, exit_price),
     pnl_pct |-> ClosePnlPct(position, exit_price)]

Call(op, id, size, price) ==
    [NoCall EXCEPT !.op = op, !.id = id, !.size = size, !.price = price,
                   !.pre = Snapshot]

\* SimExecutor.execute_open(action, reserves, position_id)
ExecuteOpen(action, reserves, position_id) ==
    /\ mode = "sandbox"
    /\ nops < MaxOps
    /\ nops' = nops + 1
    /\ UNCHANGED <<mode, apply_slippage, initial_balance, closed_trades,
                   total_pnl, engine_open_positions, exitVars, entryVars,
                   pureVars, loopVars, cooldownVars>>
    /\ LET call == Call("execute_open", position_id, action.size, action.entry_price)
       IN  IF InsufficientBalance(balance, action.size)
           THEN \* return False
                /\ last' = call
                /\ UNCHANGED <<balance, open_positions, assigned>>
           ELSE IF apply_slippage
                   /\ SlippageRaises(action.size, reserves[1], reserves[2])
           THEN \* ZeroDivisionError leaves execute_open
                /\ last' = [call EXCEPT !.raised = TRUE]
                /\ UNCHANGED <<balance, open_positions, assigned>>
           ELSE LET position == NewPosition(apply_slippage, action, reserves,
                                            position_id)
                IN  /\ open_positions' = DictSet(open_positions, position_id, position)
                    /\ balance' = BalanceAfterAdd(balance, position)
                    /\ assigned' = Assign(position_id, position)
                    /\ last' = [call EXCEPT !.ok = TRUE]

\* SimExecutor.execute_close(action, reserves), SimulatedState.close_position
ExecuteClose(action, reserves) ==
    /\ mode = "sandbox"
    /\ nops < MaxOps
    /\ nops' = nops + 1
    /\ UNCHANGED <<mode, apply_slippage, initial_balance, engine_open_positions,
                   assigned, exitVars, entryVars,
                   pureVars, loopVars, cooldownVars>>
    /\ LET id   == action.position_id
           call == Call("execute_close", id, Zero, action.exit_price)
       IN  IF id \notin DOMAIN open_positions
           THEN \* return {}
                /\ last' = call
                /\ UNCHANGED simState
           ELSE IF apply_slippage
                   /\ SlippageRaises(open_positions[id].size, reserves[1], reserves[2])
           THEN /\ last' = [call EXCEPT !.raised = TRUE]
                /\ UNCHANGED simState
           ELSE LET position   == open_positions[id]
                    exit_price == ExitFill(apply_slippage, open_positions, action,
                                           reserves)
                    trade      == ClosedTrade(position, exit_price)
                IN  /\ open_positions' = DictPop(open_positions, id)
                    /\ balance' = BalanceAfterClose(balance, position, trade.pnl)
                    /\ total_pnl' = FAdd(total_pnl, trade.pnl)
                    /\ closed_trades' = Append(closed_trades, trade)
                    /\ last' = [call EXCEPT !.ok = TRUE, !.trade = <<trade>>,
                                            !.size = position.size]

\* Positions a caller hands to EngineState.add_position.
EnginePositions(position_id) ==
    {NewPosition(FALSE, a, <<Zero, Zero>>, position_id) :
        a \in {x \in OpenActions : x.size = FromInt(1)}}

\* EngineState.add_position(position_id, position)
EngineAddPosition(position_id, position) ==
    /\ mode = "live"
    /\ nops < MaxOps
    /\ nops' = nops + 1
    /\ engine_open_positions' = DictSet(engine_open_positions, position_id, position)
    /\ assigned' = Assign(position_id, position)
    /\ last' = [Call("add_position", position_id, position.size,
                     position.entry_price) EXCEPT !.ok = TRUE]
    /\ UNCHANGED <<mode, apply_slippage, initial_balance, simState, exitVars,
                   entryVars, pureVars, loopVars, cooldownVars>>

\* EngineState.remove_position(position_id)
EngineRemovePosition(position_id) ==
    /\ mode = "live"
    /\ nops < MaxOps
    /\ nops' = nops + 1
    /\ engine_open_positions' = DictPop(engine_open_positions, position_id)
    /\ last' = [Call("remove_position", position_id, Zero, Zero)
                    EXCEPT !.ok = position_id \in DOMAIN engine_open_positions]
    /\ UNCHANGED <<mode, apply_slippage, initial_balance, simState, assigned,
                   exitVars, entryVars,
                   pureVars, loopVars, cooldownVars>>

\* What TraderAPI.open_position / close_position returns: the hash that
\* send_transaction returned, or None ("") when anything in the try raised.
TraderResult(fault) == IF fault = "ok" THEN "0xhash" ELSE ""

\* TraderAPI.open_position(...) and TraderAPI.close_position(...)
TraderCall(op, fault) ==
    /\ mode = "live"
    /\ nops < MaxOps
    /\ nops' = nops + 1
    /\ last' = [Call(op, "", Zero, Zero)
                    EXCEPT !.fault = fault, !.tx = TraderResult(fault),
                           !.ok = TraderResult(fault) # ""]
    /\ UNCHANGED <<mode, apply_slippage, initial_balance, simState,
                   engine_open_positions, assigned, exitVars, entryVars,
                   pureVars, loopVars, cooldownVars>>

TraderOpenPosition(fault) == TraderCall("open_position", fault)

TraderClosePosition(fault) == TraderCall("close_position", fault)

Next ==
    \/ \E a \in OpenActions, r \in Reserves, id \in PositionIds :
          ExecuteOpen(a, r, id)
    \/ \E a \in CloseActions, r \in Reserves : ExecuteClose(a, r)
    \/ \E id \in PositionIds : \E pos \in EnginePositions(id) :
          EngineAddPosition(id, pos)
    \/ \E id \in PositionIds : EngineRemovePosition(id)
    \/ \E f \in TxFaults : TraderOpenPosition(f)
    \/ \E f \in TxFaults : TraderClosePosition(f)

Init == StoreInit /\ ExitIdle /\ EntryIdle /\ PureIdle /\ LoopIdle
                /\ CooldownIdle

Spec == Init /\ [][Next]_vars

-----------------------------------------------------------------------------
(* Claims about the execution backends and the position stores *)

Opened == last.op = "execute_open" /\ last.ok

Closed == last.op = "execute_close" /\ last.ok

\* C2: a successful simulated open lowers balance by the position's size, a
\* close of an open position raises it by size + pnl with
\* pnl = (exit_price - entry_price) * size taken from the entry price stored
\* at open, and no other operation changes balance.
C2_BalanceAccounting ==
    /\ Opened => balance = FSub(last.pre.balance, last.size)
    /\ Closed =>
          LET stored == last.pre.open_positions[last.id]
              trade  == last.trade[1]
          IN  /\ trade.pnl = FMul(FSub(trade.exit_price, stored.entry_price),
                                  stored.size)
              /\ balance = FAdd(last.pre.balance, FAdd(stored.size, trade.pnl))
    /\ ~(Opened \/ Closed) => balance = last.pre.balance

\* C2 witness: a position has been closed at a loss or a gain.
C2_Witness == Closed /\ last.trade[1].pnl # Zero /\ last.size # Zero

\* C3: a failed backend action changes no state and returns a failure value:
\* a simulated open with balance < size returns False and leaves the
\* portfolio as it was; a live open or close whose encoding, signing or send
\* raises returns None and leaves EngineState as it was.
C3_FailedActionChangesNothing ==
    /\ (last.op = "execute_open" /\ FLt(last.pre.balance, last.size)) =>
          ~last.ok /\ ~last.raised /\ Snapshot = last.pre
    /\ (last.op \in {"open_position", "close_position"} /\ last.fault # "ok") =>
          last.tx = "" /\ ~last.raised /\ Snapshot = last.pre

\* C3 witness: an open was refused for lack of balance after an earlier open
\* had been accepted.
C3_Witness ==
    /\ last.op = "execute_open"
    /\ FLt(last.pre.balance, last.size)
    /\ DOMAIN open_positions # {}

\* One open followed by the close of that position at its entry price, with
\* slippage disabled.
RoundTripDone ==
    /\ mode = "sandbox"
    /\ ~apply_slippage
    /\ nops = 2
    /\ Closed
    /\ last.trade[1].exit_price = last.trade[1].entry_price

\* C4: with slippage disabled, an open followed by a close at the entry
\* price gives pnl = 0, leaves total_pnl unchanged and returns balance to
\* its value before the open.
C4_RoundTripRestoresBalance ==
    RoundTripDone =>
        /\ last.trade[1].pnl = Zero
        /\ total_pnl = Zero
        /\ balance = initial_balance

\* C5: an id that has been given to one position is never given to a
\* different one, in either store.
C5_IdNeverReused == \A id \in PositionIds : Cardinality(assigned[id]) <= 1

LedgerIds == {closed_trades[i].id : i \in 1..Len(closed_trades)}

\* C6: closing an open id removes it from the active set and appends one
\* ledger entry for it in the same step; no id is both open and in the
\* ledger; a close of an id that is not open returns {} and changes nothing.
C6_CloseAtomicOnce ==
    /\ Closed =>
          /\ last.id \in DOMAIN last.pre.open_positions
          /\ last.id \notin DOMAIN open_positions
          /\ closed_trades = Append(last.pre.closed_trades, last.trade[1])
          /\ last.trade[1].id = last.id
    /\ (last.op = "execute_close" /\ last.id \notin DOMAIN last.pre.open_positions) =>
          last.trade = <<>> /\ Snapshot = last.pre
    /\ DOMAIN open_positions \cap LedgerIds = {}

-----------------------------------------------------------------------------
(* Exit scans: decision/exit_logic.py and engine_live/exits.py *)

\* Longest list of open positions scanned.
MaxPositions == 2

\* None: a missing dictionary key or an absent value (a record no rounded
\* number equals).
NoneVal == [m |-> 0, e |-> 1]

\* bool(x) of an optional float
Truthy(x) == x # NoneVal /\ ~IsZero(x)

ScanPairs == {"ETH/USDC", "BTC/USDC"}

\* entry_price, stop_loss_pct, take_profit_pct of the scanned positions: the
\* configured defaults, and each field zero or missing.
ScanShapes ==
    {<<FromInt(100), DefaultSlPct, DefaultTpPct>>,
     <<FromInt(100), Zero, DefaultTpPct>>,
     <<FromInt(100), DefaultSlPct, Zero>>,
     <<FromInt(100), NoneVal, DefaultTpPct>>,
     <<FromInt(100), DefaultSlPct, NoneVal>>,
     <<NoneVal, DefaultSlPct, DefaultTpPct>>}

ScanPosition(id, pair, shape) ==
    [id |-> id, pair |-> pair, entry_price |-> shape[1],
     stop_loss_pct |-> shape[2], take_profit_pct |-> shape[3]]

\* Every shape on the first pair, the default shape on the second.
ScanKinds ==
    {<<"ETH/USDC", sh>> : sh \in ScanShapes}
        \cup {<<"BTC/USDC", <<FromInt(100), DefaultSlPct, DefaultTpPct>>>>}

\* The values of a position dictionary in insertion order; the i-th has id i.
ScanLists ==
    UNION {{[i \in 1..n |-> ScanPosition(i, ks[i][1], ks[i][2])] :
                ks \in [1..n -> ScanKinds]} : n \in 0..MaxPositions}

ScanPriceMaps ==
    {pm \in UNION {[D -> {FromInt(99), FromInt(100), FromInt(110)}] :
                      D \in SUBSET ScanPairs} :
        "BTC/USDC" \in DOMAIN pm => pm["BTC/USDC"] = FromInt(99)}

ScanRegimeMaps ==
    UNION {[D -> {"NO_TRADE", "TREND"}] : D \in SUBSET {"ETH/USDC"}}

ClosePositionAction(position_id, pair, reason, exit_price) ==
    [position_id |-> position_id, pair |-> pair, reason |-> reason,
     exit_price |-> exit_price]

\* dict.get(key): the value, or None
Get(d, k) == IF k \in DOMAIN d THEN d[k] ELSE NoneVal

\* Mutant: the regime change is tested before the price triggers.
ExitLogicStep_RegimeFirst(position, prices, regimes) ==
    LET symbol        == position.pair
        entry_price   == position.entry_price
        sl_pct        == position.stop_loss_pct
        tp_pct        == position.take_profit_pct
        current_price == IF symbol \in DOMAIN prices THEN prices[symbol] ELSE NoneVal
    IN  IF current_price = NoneVal \/ entry_price = NoneVal THEN <<>>
        ELSE IF symbol \in DOMAIN regimes /\ regimes[symbol] = "NO_TRADE"
        THEN <<ClosePositionAction(position.id, symbol, "REGIME_CHANGE", current_price)>>
        ELSE IF Truthy(sl_pct)
                /\ FLe(current_price, FMul(entry_price, FSub(One, sl_pct)))
        THEN <<ClosePositionAction(position.id, symbol, "STOP_LOSS", current_price)>>
        ELSE IF Truthy(tp_pct)
                /\ FLe(FMul(entry_price, FAdd(One, tp_pct)), current_price)
        THEN <<ClosePositionAction(position.id, symbol, "TAKE_PROFIT", current_price)>>
        ELSE <<>>

\* The body of the loop of ExitLogic.check_exits for one position: the
\* actions it appends.
ExitLogicStep(position, prices, regimes) ==
    LET symbol        == position.pair
        entry_price   == position.entry_price
        sl_pct        == position.stop_loss_pct
        tp_pct        == position.take_profit_pct
        current_price == Get(prices, symbol)
    IN  IF current_price = NoneVal \/ entry_price = NoneVal THEN <<>>
        ELSE IF Truthy(sl_pct)
                /\ FLe(current_price, FMul(entry_price, FSub(One, sl_pct)))
        THEN <<ClosePositionAction(position.id, symbol, "STOP_LOSS", current_price)>>
        ELSE IF Truthy(tp_pct)
                /\ FLe(FMul(entry_price, FAdd(One, tp_pct)), current_price)
        THEN <<ClosePositionAction(position.id, symbol, "TAKE_PROFIT", current_price)>>
        ELSE IF symbol \in DOMAIN regimes /\ regimes[symbol] = "NO_TRADE"
        THEN <<ClosePositionAction(position.id, symbol, "REGIME_CHANGE", current_price)>>
        ELSE <<>>

\* ExitLogic.check_exits(open_positions, current_prices, regime_changes)
RECURSIVE check_exits(_, _, _)
check_exits(positions, prices, regimes) ==
    IF positions = <<>> THEN <<>>
    ELSE ExitLogicStep(Head(positions), prices, regimes)
             \o check_exits(Tail(positions), prices, regimes)

\* ExitDetector.check_stop_loss(position, current_price): <<>> is None
check_stop_loss(position, current_price) ==
    LET entry_price == position.entry_price
        sl_pct      == position.stop_loss_pct
    IN  IF entry_price = NoneVal \/ sl_pct = NoneVal THEN <<>>
        ELSE IF FLe(current_price, FMul(entry_price, FSub(One, sl_pct)))
        THEN <<ClosePositionAction(position.id, position.pair, "STOP_LOSS",
                                   current_price)>>
        ELSE <<>>

\* ExitDetector.check_take_profit(position, current_price): <<>> is None
check_take_profit(position, current_price) ==
    LET entry_price == position.entry_price
        tp_pct      == position.take_profit_pct
    IN  IF entry_price = NoneVal \/ tp_pct = NoneVal THEN <<>>
        ELSE IF FLe(FMul(entry_price, FAdd(One, tp_pct)), current_price)
        THEN <<ClosePositionAction(position.id, position.pair, "TAKE_PROFIT",
                                   current_price)>>
        ELSE <<>>

\* The body of the loop of ExitDetector.check_all_exits for one position.
ExitDetectorStep(position, prices) ==
    LET current_price == Get(prices, position.pair)
    IN  IF current_price = NoneVal THEN <<>>
        ELSE IF check_stop_loss(position, current_price) # <<>>
        THEN check_stop_loss(position, current_price)
        ELSE check_take_profit(position, current_price)

\* ExitDetector.check_all_exits(current_prices) over state.open_positions
RECURSIVE check_all_exits(_, _)
check_all_exits(positions, prices) ==
    IF positions = <<>> THEN <<>>
    ELSE ExitDetectorStep(Head(positions), prices)
             \o check_all_exits(Tail(positions), prices)

StoreIdle ==
    /\ mode = "scan"
    /\ nops = 0
    /\ apply_slippage = FALSE
    /\ initial_balance = Zero
    /\ balance = Zero
    /\ open_positions = NoFn
    /\ closed_trades = <<>>
    /\ total_pnl = Zero
    /\ engine_open_positions = NoFn
    /\ last = NoCall
    /\ assigned = [x \in PositionIds |-> {}]

ExitInit ==
    /\ scan_positions \in ScanLists
    /\ current_prices \in ScanPriceMaps
    /\ regime_changes \in ScanRegimeMaps
    /\ exit_logic_actions = <<>>
    /\ exit_detector_actions = <<>>
    /\ scans_run = {}

\* A call of ExitLogic.check_exits on the open positions.
RunCheckExits ==
    /\ "check_exits" \notin scans_run
    /\ exit_logic_actions' = check_exits(scan_positions, current_prices, regime_changes)
    /\ scans_run' = scans_run \cup {"check_exits"}
    /\ UNCHANGED <<scan_positions, current_prices, regime_changes,
                   exit_detector_actions, storeVars, entryVars,
                   pureVars, loopVars, cooldownVars>>

\* A call of ExitDetector.check_all_exits on the same positions.
RunCheckAllExits ==
    /\ "check_all_exits" \notin scans_run
    /\ exit_detector_actions' = check_all_exits(scan_positions, current_prices)
    /\ scans_run' = scans_run \cup {"check_all_exits"}
    /\ UNCHANGED <<scan_positions, current_prices, regime_changes,
                   exit_logic_actions, storeVars, entryVars,
                   pureVars, loopVars, cooldownVars>>

ExitNext == RunCheckExits \/ RunCheckAllExits

ExitSpecInit == StoreIdle /\ ExitInit /\ EntryIdle /\ PureIdle /\ LoopIdle
                /\ CooldownIdle

SpecExit == ExitSpecInit /\ [][ExitNext]_vars

-----------------------------------------------------------------------------
(* Entry pipeline: decision/entry_logic.py and its collaborators *)

\* risk.yaml defaults read by PositionSizer.__init__
MaxRiskPerTrade == Lit(5, 1000)
MinPositionPct == Lit(2, 100)
MaxPositionPct == Lit(5, 100)

\* What a loaded model object may do when called.
Absent == [kind |-> "absent", v |-> Zero, s |-> ""]
Raises == [kind |-> "raises", v |-> Zero, s |-> ""]
FloatPred(v) == [kind |-> "float", v |-> v, s |-> ""]
IntPred(n) == [kind |-> "int", v |-> FromInt(n), s |-> ""]
StrPred(t) == [kind |-> "str", v |-> Zero, s |-> t]

\* str.upper() on the labels a regime model returns
Upper(t) ==
    CASE t = "trend" -> "TREND"
      [] t = "range" -> "RANGE"
      [] t = "no_trade" -> "NO_TRADE"
      [] t = "chop" -> "CHOP"
      [] OTHER -> t

\* RegimeModel.predict_regime(features)
predict_regime(model) ==
    IF model.kind \in {"absent", "raises"} THEN "NO_TRADE"
    ELSE IF model.kind = "int"
    THEN CASE model.v = FromInt(0) -> "TREND"
           [] model.v = FromInt(1) -> "RANGE"
           [] model.v = FromInt(2) -> "NO_TRADE"
           [] OTHER -> "NO_TRADE"
    ELSE Upper(model.s)

\* pairs.min_liquidity_usd default
MinLiquidityUsd == FromInt(100000)

\* FeatureBuilder.build_features(ohlcv_df) is None: fewer than 50 rows
FeaturesMissing(window) == window = "short"

\* Mutant: the volatility ceiling is not applied.
classify_regime_NoVolatilityCeiling(window, model, volatility, liquidity) ==
    IF FeaturesMissing(window) THEN "NO_TRADE"
    ELSE LET regime == predict_regime(model)
         IN  IF regime # "NO_TRADE" /\ liquidity # NoneVal
                /\ FLt(liquidity, MinLiquidityUsd)
             THEN "NO_TRADE"
             ELSE regime

\* RegimeClassifier.classify_regime(ohlcv_df, volatility, liquidity)
classify_regime(window, model, volatility, liquidity) ==
    IF FeaturesMissing(window) THEN "NO_TRADE"
    ELSE LET regime == predict_regime(model)
         IN  IF regime # "NO_TRADE" /\ liquidity # NoneVal
                /\ FLt(liquidity, MinLiquidityUsd)
             THEN "NO_TRADE"
             ELSE IF regime # "NO_TRADE" /\ volatility # NoneVal
                     /\ FLt(Lit(1, 10), volatility)
             THEN "NO_TRADE"
             ELSE regime

\* Mutant: every label but NO_TRADE is tradable.
is_tradable_NotNoTrade(regime) == regime # "NO_TRADE"

\* RegimeClassifier.is_tradable(regime)
is_tradable(regime) == regime \in {"TREND", "RANGE"}

\* Mutant: a missing or failing model answers 0.
predict_edge_ZeroDefault(model) ==
    IF model.kind \in {"absent", "raises"} THEN Zero ELSE model.v

\* EdgeModel.predict_edge(features); a binary classifier's second column is
\* returned as it is.
predict_edge(model) ==
    IF model.kind \in {"absent", "raises"} THEN Lit(1, 2) ELSE model.v

\* PositionSizer.__init__(risk_config): the three fields it reads
PositionSizer(max_risk_per_trade, min_pct, max_pct) ==
    [max_risk_per_trade |-> max_risk_per_trade, min_position_pct |-> min_pct,
     max_position_pct |-> max_pct]

\* PositionSizer.calculate_position_size(self, capital, stop_loss_pct)
Sizer_calculate_position_size(self, capital, stop_loss_pct) ==
    IF FLe(stop_loss_pct, Zero) THEN Zero
    ELSE LET risk_amount   == FMul(capital, self.max_risk_per_trade)
             position_size == FDiv(risk_amount, stop_loss_pct)
             min_size      == FMul(capital, self.min_position_pct)
             max_size      == FMul(capital, self.max_position_pct)
         IN  IF FLt(position_size, min_size) THEN min_size
             ELSE IF FLt(max_size, position_size) THEN max_size
             ELSE position_size

\* calculate_position_size of the sizer built from the default risk.yaml
calculate_position_size(capital, stop_loss_pct) ==
    Sizer_calculate_position_size(
        PositionSizer(MaxRiskPerTrade, MinPositionPct, MaxPositionPct),
        capital, stop_loss_pct)

\* FrictionModel.predict_friction(order_size, liquidity, volatility, base_friction)
predict_friction(model, base_friction) ==
    IF model.kind \in {"absent", "raises"} THEN base_friction
    ELSE FMax(Zero, FMin(model.v, Lit(1, 10)))

\* Mutant: the probability is used as given, without clamping.
calculate_ev_NoClamp(p, win_amount, loss_amount, friction) ==
    IF FLt(win_amount, Zero) \/ FLt(loss_amount, Zero) THEN NegInf
    ELSE FSub(FSub(FMul(p, win_amount), FMul(FSub(One, p), loss_amount)),
              friction)

\* Mutant: the expected loss is weighted by p instead of 1 - p.
calculate_ev_LossWeightedByP(p, win_amount, loss_amount, friction) ==
    LET q == IF ~(FLe(Zero, p) /\ FLe(p, One)) THEN FMax(Zero, FMin(One, p)) ELSE p
    IN  IF FLt(win_amount, Zero) \/ FLt(loss_amount, Zero) THEN NegInf
        ELSE FSub(FSub(FMul(q, win_amount), FMul(q, loss_amount)), friction)

\* Mutant: negative win or loss amounts are scored like any other.
calculate_ev_NoAmountCheck(p, win_amount, loss_amount, friction) ==
    LET q == IF ~(FLe(Zero, p) /\ FLe(p, One)) THEN FMax(Zero, FMin(One, p)) ELSE p
    IN  FSub(FSub(FMul(q, win_amount), FMul(FSub(One, q), loss_amount)), friction)

\* EVCalculator.calculate_ev(p, win_amount, loss_amount, friction)
calculate_ev(p, win_amount, loss_amount, friction) ==
    LET q == IF ~(FLe(Zero, p) /\ FLe(p, One)) THEN FMax(Zero, FMin(One, p)) ELSE p
    IN  IF FLt(win_amount, Zero) \/ FLt(loss_amount, Zero) THEN NegInf
        ELSE FSub(FSub(FMul(q, win_amount), FMul(FSub(One, q), loss_amount)),
                  friction)

\* EVCalculator.calculate_ev_from_sl_tp: the EV and the debug dictionary
calculate_ev_from_sl_tp(p, entry_price, sl_pct, tp_pct, position_size, friction) ==
    LET loss_amount   == FMul(position_size, sl_pct)
        win_amount    == FMul(position_size, tp_pct)
        friction_cost == FMul(position_size, friction)
        ev            == calculate_ev(p, win_amount, loss_amount, friction_cost)
    IN  [ev |-> ev,
         debug_info |-> [p |-> p, win_amount |-> win_amount,
                         loss_amount |-> loss_amount, friction |-> friction_cost,
                         sl_price |-> FMul(entry_price, FSub(One, sl_pct)),
                         tp_price |-> FMul(entry_price, FAdd(One, tp_pct)),
                         ev |-> ev]]

\* Mutant: the boundary ev == min_ev is rejected.
BelowThreshold_Inclusive(ev, min_ev) == FLe(ev, min_ev)

\* EntryLogic.evaluate_entry step 9: if ev < min_ev: return None
BelowThreshold(ev, min_ev) == FLt(ev, min_ev)

\* What evaluate_entry returned (action: <<>> is None) and what it did: the
\* steps it ran, the values it computed, whether its except clause caught,
\* whether an exception reached the caller.
EntryOutcome(action, steps, regime, friction, ev, caught) ==
    [action |-> action, steps |-> steps, regime |-> regime,
     friction |-> friction, ev |-> ev, caught |-> caught, raised |-> FALSE,
     p |-> NoneVal, base_friction |-> NoneVal]

\* reserves[0], reserves[1] raise on a missing pair of reserves, and
\* amount_out / amount_in on a zero amount.
\* np.std of the returns of the window's closes
WindowVolatility(window) ==
    IF window = "volatile" THEN Lit(1, 5) ELSE Lit(1, 100)

\* reserves[0] * price + reserves[1]
PoolLiquidity(reserves, price) == FAdd(FMul(reserves[1], price), reserves[2])

FrictionStepRaises(position_size, reserves) ==
    \/ Len(reserves) < 2
    \/ SlippageRaises(position_size, reserves[1], reserves[2])

\* The try block of EntryLogic.evaluate_entry; raised: an exception left it.
evaluate_entry_try(in) ==
    LET regime == classify_regime(in.window, in.regime_model, NoneVal, NoneVal)
    IN  IF ~is_tradable(regime)
        THEN EntryOutcome(<<>>, <<"classify_regime">>, regime, NoneVal, NoneVal, FALSE)
        ELSE IF FeaturesMissing(in.window)
        THEN EntryOutcome(<<>>, <<"classify_regime", "build_features">>, regime,
                          NoneVal, NoneVal, FALSE)
        ELSE
        LET p             == predict_edge(in.edge_model)
            sl_pct        == in.sl_pct
            tp_pct        == in.tp_pct
            position_size == calculate_position_size(in.capital, sl_pct)
            sized         == <<"classify_regime", "build_features", "predict_edge",
                               "calculate_position_size", "calculate_base_friction">>
        IN  IF FrictionStepRaises(position_size, in.reserves)
            THEN \* TypeError, IndexError or ZeroDivisionError
                 [EntryOutcome(<<>>, sized, regime, NoneVal, NoneVal, FALSE)
                     EXCEPT !.raised = TRUE, !.p = p]
            ELSE
            LET base_friction == calculate_base_friction(position_size, in.reserves[1],
                                                         in.reserves[2], FeeBps)
                friction      == predict_friction(in.friction_model, base_friction)
                scored        == calculate_ev_from_sl_tp(p, in.price, sl_pct, tp_pct,
                                                         position_size, friction)
                steps         == sized \o <<"predict_friction", "calculate_ev">>
                action        == [pair |-> in.symbol, size |-> position_size,
                                  entry_price |-> in.price, stop_loss_pct |-> sl_pct,
                                  take_profit_pct |-> tp_pct, ev |-> scored.ev,
                                  p |-> p, friction |-> friction, regime |-> regime,
                                  metadata |-> scored.debug_info]
            IN  [EntryOutcome(IF BelowThreshold(scored.ev, in.min_ev)
                              THEN <<>> ELSE <<action>>,
                              steps, regime, friction, scored.ev, FALSE)
                    EXCEPT !.p = p, !.base_friction = base_friction]

\* Mutant: the exception is not caught.
ExceptClause_Reraise(outcome) == outcome

\* except Exception: log and return None
ExceptClause(outcome) ==
    IF outcome.raised
    THEN [outcome EXCEPT !.raised = FALSE, !.caught = TRUE, !.action = <<>>]
    ELSE outcome

\* EntryLogic.evaluate_entry(symbol, price, ohlcv_df, reserves, capital)
evaluate_entry(in) == ExceptClause(evaluate_entry_try(in))

EntryInputs ==
    [symbol        : {"ETH/USDC"},
     price         : {FromInt(3)},
     window        : {"short", "full", "volatile"},
     reserves      : {<<>>, <<Zero, Zero>>, <<FromInt(1000), FromInt(1000)>>},
     capital       : {FromInt(1000), Zero, FromInt(-1000)},
     regime_model  : {Absent, Raises, IntPred(0), IntPred(2), StrPred("range"), StrPred("chop")},
     edge_model    : {Absent, Raises, FloatPred(Lit(1, 2)), FloatPred(One), FloatPred(Lit(3, 2))},
     friction_model : {Absent, Raises, FloatPred(Zero), FloatPred(Lit(4, 100)),
                       FloatPred(Lit(1, 2)), FloatPred(Lit(-1, 100))},
     sl_pct        : {DefaultSlPct, Zero},
     tp_pct        : {DefaultTpPct, Lit(1, 4)},
     min_ev        : {Lit(1, 1000), Zero}]

EntryInit ==
    /\ entry_input \in EntryInputs
    /\ entry_result = NoFn

\* A call of EntryLogic.evaluate_entry.
EvaluateEntry ==
    /\ entry_result = NoFn
    /\ entry_result' = evaluate_entry(entry_input)
    /\ UNCHANGED <<entry_input, storeVars, exitVars, pureVars,
                   loopVars, cooldownVars>>

EntryNext == EvaluateEntry

EntrySpecInit == StoreIdle /\ ExitIdle /\ EntryInit /\ PureIdle /\ LoopIdle
                /\ CooldownIdle

SpecEntry == EntrySpecInit /\ [][EntryNext]_vars

-----------------------------------------------------------------------------
(* Pure functions called on their own *)

RegimePredictions ==
    {Absent, Raises, IntPred(0), IntPred(1), IntPred(2), IntPred(7),
     StrPred("trend"), StrPred("range"), StrPred("chop"), StrPred("no_trade")}

\* Optional volatility and liquidity arguments of classify_regime
Volatilities == {NoneVal, Lit(1, 100), Lit(1, 10), Lit(2, 10)}

Liquidities ==
    {NoneVal, Zero, FromInt(50000), MinLiquidityUsd, FromInt(200000)}

\* A call of RegimeClassifier.classify_regime(ohlcv_df, volatility, liquidity)
CallClassifyRegime ==
    /\ pure_call = NoFn
    /\ \E window \in {"short", "full"}, model \in RegimePredictions,
          volatility \in Volatilities, liquidity \in Liquidities :
          pure_call' = [fn |-> "classify_regime", window |-> window,
                        model |-> model, volatility |-> volatility,
                        liquidity |-> liquidity,
                        result |-> classify_regime(window, model, volatility,
                                                   liquidity)]
    /\ UNCHANGED <<storeVars, exitVars, entryVars, loopVars, cooldownVars>>

\* Risk configurations: the defaults, a larger risk, and min_pct at, below
\* and above max_pct.
SizerConfigs ==
    {PositionSizer(r, lo, hi) :
        r \in {MaxRiskPerTrade, Lit(5, 100)},
        lo \in {MinPositionPct, MaxPositionPct},
        hi \in {MaxPositionPct, MinPositionPct}}

SizerCapitals == {Zero, One, FromInt(1000), FromInt(100000)}

SizerStopLosses == {Zero, Lit(1, 1000), DefaultSlPct, Lit(1, 2), One}

\* A call of PositionSizer.calculate_position_size(capital, stop_loss_pct)
CallPositionSize ==
    /\ pure_call = NoFn
    /\ \E sizer \in SizerConfigs, capital \in SizerCapitals,
          stop_loss_pct \in SizerStopLosses :
          pure_call' = [fn |-> "calculate_position_size", sizer |-> sizer,
                        capital |-> capital, stop_loss_pct |-> stop_loss_pct,
                        result |-> Sizer_calculate_position_size(
                                       sizer, capital, stop_loss_pct)]
    /\ UNCHANGED <<storeVars, exitVars, entryVars, loopVars, cooldownVars>>

SlippageAmounts == {Zero, One, FromInt(50)}

SlippageReserves == {Zero, FromInt(1000), FromInt(2000)}

SlippageFees == {0, FeeBps, 100}

\* A call of calculate_base_slippage(amount_in, reserve_in, reserve_out,
\* fee_bps); raised: the call ended in ZeroDivisionError.
CallBaseSlippage ==
    /\ pure_call = NoFn
    /\ \E amount_in \in SlippageAmounts, reserve_in \in SlippageReserves,
          reserve_out \in SlippageReserves, fee_bps \in SlippageFees :
          pure_call' =
              [fn |-> "calculate_base_slippage", amount_in |-> amount_in,
               reserve_in |-> reserve_in, reserve_out |-> reserve_out,
               fee_bps |-> fee_bps,
               raised |-> SlippageRaises(amount_in, reserve_in, reserve_out),
               result |-> IF SlippageRaises(amount_in, reserve_in, reserve_out)
                          THEN NoneVal
                          ELSE calculate_base_slippage(amount_in, reserve_in,
                                                       reserve_out, fee_bps)]
    /\ UNCHANGED <<storeVars, exitVars, entryVars, loopVars, cooldownVars>>

\* A call of calculate_base_friction(amount_in, reserve_in, reserve_out,
\* fee_bps); raised: calculate_base_slippage ended in ZeroDivisionError.
CallBaseFriction ==
    /\ pure_call = NoFn
    /\ \E amount_in \in SlippageAmounts, reserve_in \in SlippageReserves,
          reserve_out \in SlippageReserves, fee_bps \in SlippageFees :
          pure_call' =
              [fn |-> "calculate_base_friction", amount_in |-> amount_in,
               reserve_in |-> reserve_in, reserve_out |-> reserve_out,
               fee_bps |-> fee_bps,
               raised |-> SlippageRaises(amount_in, reserve_in, reserve_out),
               result |-> IF SlippageRaises(amount_in, reserve_in, reserve_out)
                          THEN NoneVal
                          ELSE calculate_base_friction(amount_in, reserve_in,
                                                       reserve_out, fee_bps)]
    /\ UNCHANGED <<storeVars, exitVars, entryVars, loopVars, cooldownVars>>

\* Arguments of the direct calls of calculate_ev
EvProbabilities == {Lit(-1, 2), Zero, Lit(1, 3), Lit(1, 2), One, Lit(3, 2)}
EvAmounts == {FromInt(-1), Zero, Lit(1, 10), FromInt(3)}
EvFrictions == {Lit(-1, 100), Zero, Lit(3, 1000), One}
EvThresholds == {FromInt(-1000), Zero, Lit(1, 1000)}

\* A call of calculate_ev(p, win_amount, loss_amount, friction) followed by the
\* threshold test evaluate_entry applies to its result; admitted: the test let
\* the EV through.
CallCalculateEv ==
    /\ pure_call = NoFn
    /\ \E p \in EvProbabilities, win_amount \in EvAmounts,
          loss_amount \in EvAmounts, friction \in EvFrictions,
          min_ev \in EvThresholds :
          LET ev == calculate_ev(p, win_amount, loss_amount, friction)
          IN  pure_call' =
                  [fn |-> "calculate_ev", p |-> p, win_amount |-> win_amount,
                   loss_amount |-> loss_amount, friction |-> friction,
                   min_ev |-> min_ev, result |-> ev,
                   admitted |-> ~BelowThreshold(ev, min_ev)]
    /\ UNCHANGED <<storeVars, exitVars, entryVars, loopVars, cooldownVars>>

\* The argument names of calculate_ev
EvArguments == {"p", "win_amount", "loss_amount", "friction"}

\* Two calls of calculate_ev whose arguments differ in the one named by
\* changed, which the second call gives the value other.
CallCalculateEvTwice ==
    /\ pure_call = NoFn
    /\ \E p \in EvProbabilities, win_amount \in EvAmounts,
          loss_amount \in EvAmounts, friction \in EvFrictions,
          changed \in EvArguments :
          \E other \in (IF changed = "p" THEN EvProbabilities
                        ELSE IF changed = "friction" THEN EvFrictions
                        ELSE EvAmounts) :
              LET first  == [p |-> p, win_amount |-> win_amount,
                             loss_amount |-> loss_amount, friction |-> friction]
                  second == [first EXCEPT ![changed] = other]
              IN  pure_call' =
                      [fn |-> "calculate_ev_twice", changed |-> changed,
                       first |-> first, second |-> second,
                       first_result |->
                           calculate_ev(first.p, first.win_amount,
                                        first.loss_amount, first.friction),
                       second_result |->
                           calculate_ev(second.p, second.win_amount,
                                        second.loss_amount, second.friction)]
    /\ UNCHANGED <<storeVars, exitVars, entryVars, loopVars, cooldownVars>>

PureNext ==
    \/ CallClassifyRegime
    \/ CallPositionSize
    \/ CallBaseSlippage
    \/ CallBaseFriction
    \/ CallCalculateEv
    \/ CallCalculateEvTwice

PureSpecInit == StoreIdle /\ ExitIdle /\ EntryIdle /\ PureIdle /\ LoopIdle
                /\ CooldownIdle

SpecPure == PureSpecInit /\ [][PureNext]_vars

-----------------------------------------------------------------------------
(* Live loop: engine_live/scheduler.py, engine_live/main_loop.py and the
   cooldowns of engine_live/state.py *)

\* cooldowns.per_pair default, in seconds
CooldownPerPair == 3600

\* Mutant: the cooldown still holds when exactly the window has elapsed.
is_in_cooldown_Inclusive(cds, pair, cooldown_seconds, t) ==
    IF pair \notin DOMAIN cds THEN FALSE
    ELSE LET elapsed == t - cds[pair] IN elapsed <= cooldown_seconds

\* EngineState.is_in_cooldown(pair, cooldown_seconds) when datetime.now() is t
is_in_cooldown(cds, pair, cooldown_seconds, t) ==
    IF pair \notin DOMAIN cds THEN FALSE
    ELSE LET elapsed == t - cds[pair] IN elapsed < cooldown_seconds

\* market_feed.pairs: the configured pairs, one of them disabled
LoopPairs ==
    <<[symbol |-> "ETH/USDC", enabled |-> TRUE],
      [symbol |-> "BTC/USDC", enabled |-> FALSE],
      [symbol |-> "SOL/USDC", enabled |-> TRUE]>>

\* One thing run_iteration did.
Event(ev, id, pair) == [ev |-> ev, id |-> id, pair |-> pair]

\* What a read of the chain or of the market can do.
ReadOutcomes == {"ok", "unavailable", "raises"}

\* Mutant: the loop goes on whatever was requested.
LoopCondition_Always(run, shutdown) == TRUE

\* while self.running and not self.shutdown_requested
LoopCondition(run, shutdown) == run /\ ~shutdown

\* Mutant: an error inside the tick exits the process.
TickAfterError_Exit == "exit"

\* except Exception in run_iteration: the error is logged and the tick ends.
TickAfterError == "done"

\* Mutant: the entry phase does not wait for the close loop.
ClosePhaseDone_Eager(pending) == TRUE

\* for action in exit_actions: the loop is over when the list is exhausted.
ClosePhaseDone(pending) == pending = <<>>

\* The open positions of EngineState in the live loop.
LoopPositionLists ==
    {ps \in ScanLists :
        \A i \in DOMAIN ps : ps[i].stop_loss_pct = DefaultSlPct
                                /\ ps[i].take_profit_pct = DefaultTpPct
                                /\ ps[i].entry_price # NoneVal}

LoopInit ==
    /\ running = FALSE
    /\ shutdown_requested = FALSE
    /\ sched_pc = "new"
    /\ tick_pc = "idle"
    /\ tick_trace = <<>>
    /\ exit_actions = <<>>
    /\ pair_index = 0
    /\ stop_pc = "idle"
    /\ scan_positions \in LoopPositionLists
    /\ current_prices = NoFn
    /\ regime_changes = NoFn
    /\ exit_logic_actions = <<>>
    /\ exit_detector_actions = <<>>
    /\ scans_run = {}

\* EngineState.cooldowns when run_loop is called: empty, or with a cooldown
\* that a caller outside the loop has set.
LoopCooldowns == {NoFn, DictSet(NoFn, "SOL/USDC", 0)}

LoopCooldownInit ==
    /\ cooldowns \in LoopCooldowns
    /\ now = 0
    /\ cooldown_check = NoFn

loopRest == <<storeVars, exitVars, entryVars, pureVars, cooldownVars>>

\* The tick that ran last ended in an error.
TickFailed == tick_trace # <<>> /\ tick_trace[Len(tick_trace)].ev = "error"

\* TradingScheduler.run_loop is called: running = True, handlers installed.
RunLoopStart ==
    /\ sched_pc = "new"
    /\ running' = TRUE
    /\ sched_pc' = "test"
    /\ UNCHANGED <<shutdown_requested, tick_pc, tick_trace, exit_actions,
                   pair_index, stop_pc, loopRest>>

\* The while test: the callback is called, or run_loop returns.
LoopTest ==
    /\ sched_pc = "test"
    /\ IF LoopCondition(running, shutdown_requested)
       THEN /\ sched_pc' = "callback"
            /\ tick_pc' = "tvl"
            /\ tick_trace' = <<Event("start", IF TickFailed THEN 1 ELSE 0, "")>>
            /\ exit_actions' = <<>>
            /\ pair_index' = 0
       ELSE /\ sched_pc' = "stopped"
            /\ UNCHANGED <<tick_pc, tick_trace, exit_actions, pair_index>>
    /\ UNCHANGED <<running, shutdown_requested, stop_pc, loopRest>>

\* Mutant: a tick without capital goes on to the price reads.
TickAfterNoCapital_Continue == "prices"

\* if tvl is None or tvl <= 0: return
TickAfterNoCapital == "done"

\* run_iteration step 1: onchain_state.get_tvl(); unavailable: it returned
\* None (no vault, or the contract call failed) or a value <= 0.
TickGetTvl(outcome) ==
    /\ tick_pc = "tvl"
    /\ CASE outcome = "ok" ->
              /\ tick_pc' = "prices"
              /\ tick_trace' = Append(tick_trace, Event("tvl", 0, ""))
         [] outcome = "unavailable" ->
              /\ tick_pc' = TickAfterNoCapital
              /\ tick_trace' = Append(tick_trace, Event("skipped", 0, ""))
         [] outcome = "raises" ->
              /\ tick_pc' = TickAfterError
              /\ tick_trace' = Append(tick_trace, Event("error", 0, ""))
    /\ UNCHANGED <<running, shutdown_requested, sched_pc, exit_actions,
                   pair_index, stop_pc, loopRest>>

\* run_iteration step 2: the prices are read and the exit scan runs.
TickScanExits(outcome, prices) ==
    /\ tick_pc = "prices"
    /\ IF outcome = "raises"
       THEN /\ tick_pc' = TickAfterError
            /\ tick_trace' = Append(tick_trace, Event("error", 0, ""))
            /\ UNCHANGED exit_actions
       ELSE /\ tick_pc' = "close"
            /\ exit_actions' = check_all_exits(scan_positions, prices)
            /\ tick_trace' =
                   Append(tick_trace,
                          Event("scan", Len(check_all_exits(scan_positions, prices)), ""))
    /\ UNCHANGED <<running, shutdown_requested, sched_pc, pair_index, stop_pc,
                   loopRest>>

\* Mutant: closing a position starts the cooldown of its pair.
execute_close_cooldowns_Set(cds, action, t) == DictSet(cds, action.pair, t)

\* EngineState.cooldowns after _execute_close(action), which only logs
execute_close_cooldowns(cds, action, t) == cds

\* for action in exit_actions: self._execute_close(action)
TickExecuteClose ==
    /\ tick_pc = "close"
    /\ exit_actions # <<>>
    /\ tick_trace' = Append(tick_trace,
                            Event("close", Head(exit_actions).position_id,
                                  Head(exit_actions).pair))
    /\ exit_actions' = Tail(exit_actions)
    /\ cooldowns' = execute_close_cooldowns(cooldowns, Head(exit_actions), now)
    /\ UNCHANGED <<running, shutdown_requested, sched_pc, tick_pc, pair_index,
                   stop_pc, storeVars, exitVars, entryVars, pureVars, now,
                   cooldown_check>>

\* The close loop is over; the loop over the pairs begins.
TickBeginEntries ==
    /\ tick_pc = "close"
    /\ ClosePhaseDone(exit_actions)
    /\ tick_pc' = "entry"
    /\ pair_index' = 1
    /\ UNCHANGED <<running, shutdown_requested, sched_pc, tick_trace,
                   exit_actions, stop_pc, loopRest>>

\* run_iteration step 3, one pair: a disabled pair is passed over, an
\* enabled one has its cooldown checked; after the last pair the tick ends.
TickEntryPair ==
    /\ tick_pc = "entry"
    /\ IF pair_index > Len(LoopPairs)
       THEN /\ tick_pc' = "done"
            /\ UNCHANGED <<tick_trace, pair_index>>
       ELSE /\ pair_index' = pair_index + 1
            /\ tick_pc' = "entry"
            /\ LET pair_config == LoopPairs[pair_index]
               IN  tick_trace' =
                       IF ~pair_config.enabled THEN tick_trace
                       ELSE Append(tick_trace,
                                   Event(IF is_in_cooldown(cooldowns, pair_config.symbol,
                                                           CooldownPerPair, now)
                                         THEN "in_cooldown" ELSE "cooldown_over",
                                         0, pair_config.symbol))
    /\ UNCHANGED <<running, shutdown_requested, sched_pc, exit_actions, stop_pc,
                   loopRest>>

\* The callback is over. A return, and an exception caught by the except
\* clause of run_loop, go on to the sleep test; an exit ends the process.
TickReturn ==
    /\ sched_pc = "callback"
    /\ tick_pc \in {"done", "exit"}
    /\ sched_pc' = IF tick_pc = "exit" THEN "terminated" ELSE "after"
    /\ UNCHANGED <<running, shutdown_requested, tick_pc, tick_trace,
                   exit_actions, pair_index, stop_pc, loopRest>>

\* if not self.shutdown_requested: time.sleep(self.interval_seconds)
LoopSleep ==
    /\ sched_pc = "after"
    /\ sched_pc' = "test"
    /\ UNCHANGED <<running, shutdown_requested, tick_pc, tick_trace,
                   exit_actions, pair_index, stop_pc, loopRest>>

\* TradingScheduler._signal_handler: runs in the thread of run_loop, between
\* two of its steps.
SignalHandler ==
    /\ sched_pc \notin {"new", "stopped", "terminated"}
    /\ shutdown_requested' = TRUE
    /\ running' = FALSE
    /\ UNCHANGED <<sched_pc, tick_pc, tick_trace, exit_actions, pair_index,
                   stop_pc, loopRest>>

\* TradingScheduler.stop(), first assignment: self.running = False
StopRunning ==
    /\ stop_pc = "idle"
    /\ running' = FALSE
    /\ stop_pc' = "running_cleared"
    /\ UNCHANGED <<shutdown_requested, sched_pc, tick_pc, tick_trace,
                   exit_actions, pair_index, loopRest>>

\* TradingScheduler.stop(), second assignment: self.shutdown_requested = True
StopShutdown ==
    /\ stop_pc = "running_cleared"
    /\ shutdown_requested' = TRUE
    /\ stop_pc' = "returned"
    /\ UNCHANGED <<running, sched_pc, tick_pc, tick_trace, exit_actions,
                   pair_index, loopRest>>

\* The steps of the thread that runs run_loop.
LoopThread ==
    \/ RunLoopStart
    \/ LoopTest
    \/ \E o \in ReadOutcomes : TickGetTvl(o)
    \/ \E o \in {"ok", "raises"}, pm \in ScanPriceMaps : TickScanExits(o, pm)
    \/ TickExecuteClose
    \/ TickBeginEntries
    \/ TickEntryPair
    \/ TickReturn
    \/ LoopSleep

LoopNext ==
    \/ LoopThread
    \/ SignalHandler
    \/ StopRunning
    \/ StopShutdown

LoopSpecInit == StoreIdle /\ LoopInit /\ EntryIdle /\ PureIdle /\ LoopCooldownInit

SpecLoop == LoopSpecInit /\ [][LoopNext]_vars

\* Every call returns and the thread of run_loop keeps being scheduled.
SpecLoopFair == SpecLoop /\ WF_vars(LoopThread)

-----------------------------------------------------------------------------
(* Per-pair cooldowns of EngineState, called on their own *)

\* Seconds the clock is followed for.
MaxNow == 3

CooldownPairs == {"ETH/USDC", "BTC/USDC"}

\* cooldown_seconds arguments
CooldownWindows == {0, 1, 2}

\* EngineState.set_cooldown(pair)
SetCooldown(pair) ==
    /\ cooldowns' = DictSet(cooldowns, pair, now)
    /\ UNCHANGED <<now, cooldown_check, storeVars, exitVars, entryVars,
                   pureVars, loopVars>>

\* A call of EngineState.is_in_cooldown(pair, cooldown_seconds); last_trade
\* is the time found in the dictionary, -1 for none.
IsInCooldown(pair, cooldown_seconds) ==
    /\ cooldown_check' =
           [pair |-> pair, window |-> cooldown_seconds, at |-> now,
            last_trade |-> IF pair \in DOMAIN cooldowns THEN cooldowns[pair] ELSE -1,
            result |-> is_in_cooldown(cooldowns, pair, cooldown_seconds, now)]
    /\ UNCHANGED <<cooldowns, now, storeVars, exitVars, entryVars, pureVars,
                   loopVars>>

\* A second passes.
ClockTick ==
    /\ now < MaxNow
    /\ now' = now + 1
    /\ UNCHANGED <<cooldowns, cooldown_check, storeVars, exitVars, entryVars,
                   pureVars, loopVars>>

CooldownNext ==
    \/ \E pair \in CooldownPairs : SetCooldown(pair)
    \/ \E pair \in CooldownPairs, w \in CooldownWindows : IsInCooldown(pair, w)
    \/ ClockTick

CooldownSpecInit == StoreIdle /\ ExitIdle /\ EntryIdle /\ PureIdle /\ LoopIdle
                    /\ CooldownIdle

SpecCooldown == CooldownSpecInit /\ [][CooldownNext]_vars

-----------------------------------------------------------------------------
(* Claims about the exit scans *)

LogicRan == "check_exits" \in scans_run

DetectorRan == "check_all_exits" \in scans_run

\* The actions ExitLogic.check_exits emitted for position i.
LogicActionsFor(i) ==
    SelectSeq(exit_logic_actions, LAMBDA a : a.position_id = scan_positions[i].id)

\* Position i has an entry price, both fractions set, and a current price.
Priced(i) ==
    /\ scan_positions[i].pair \in DOMAIN current_prices
    /\ scan_positions[i].entry_price # NoneVal
    /\ Truthy(scan_positions[i].stop_loss_pct)
    /\ Truthy(scan_positions[i].take_profit_pct)

StopLossHit(i) ==
    FLe(current_prices[scan_positions[i].pair],
        FMul(scan_positions[i].entry_price,
             FSub(One, scan_positions[i].stop_loss_pct)))

TakeProfitHit(i) ==
    FLe(FMul(scan_positions[i].entry_price,
             FAdd(One, scan_positions[i].take_profit_pct)),
        current_prices[scan_positions[i].pair])

RegimeHit(i) ==
    /\ scan_positions[i].pair \in DOMAIN regime_changes
    /\ regime_changes[scan_positions[i].pair] = "NO_TRADE"

\* The reason the fixed order stop-loss, take-profit, regime change gives
\* position i: "" when no trigger matches.
FirstTrigger(i) ==
    IF StopLossHit(i) THEN "STOP_LOSS"
    ELSE IF TakeProfitHit(i) THEN "TAKE_PROFIT"
    ELSE IF RegimeHit(i) THEN "REGIME_CHANGE"
    ELSE ""

\* C1: check_exits emits at most one CloseAction per position, with the
\* reason of the first trigger that matches in the order stop-loss,
\* take-profit, regime change to NO_TRADE, and what it emits for a position
\* is what it emits for that position alone.
C1_ExitPriority ==
    LogicRan =>
        \A i \in 1..Len(scan_positions) :
            /\ Len(LogicActionsFor(i)) <= 1
            /\ LogicActionsFor(i) =
                   check_exits(<<scan_positions[i]>>, current_prices, regime_changes)
            /\ Priced(i) =>
                   IF FirstTrigger(i) = "" THEN LogicActionsFor(i) = <<>>
                   ELSE LogicActionsFor(i) =
                            <<ClosePositionAction(scan_positions[i].id,
                                                  scan_positions[i].pair,
                                                  FirstTrigger(i),
                                                  current_prices[scan_positions[i].pair])>>

\* C1 witness: entry 100, sl 0.01, tp 0.04 at price 99 with a regime change
\* to NO_TRADE pending is closed as STOP_LOSS, next to a position of another
\* pair.
C1_Witness ==
    /\ LogicRan
    /\ Len(scan_positions) = 2
    /\ scan_positions[1] =
           ScanPosition(1, "ETH/USDC", <<FromInt(100), Lit(1, 100), Lit(4, 100)>>)
    /\ scan_positions[2].pair = "BTC/USDC"
    /\ Get(current_prices, "ETH/USDC") = FromInt(99)
    /\ RegimeHit(1)
    /\ LogicActionsFor(1) =
           <<ClosePositionAction(1, "ETH/USDC", "STOP_LOSS", FromInt(99))>>

\* C7: with no regime change supplied, the live scan and the decision-layer
\* scan emit the same CloseActions in the same order, also for positions
\* whose sl_pct or tp_pct is 0 or missing.
C7_LiveAndDecisionScansAgree ==
    (LogicRan /\ DetectorRan /\ regime_changes = NoFn) =>
        exit_logic_actions = exit_detector_actions


\* The actions ExitDetector.check_all_exits emitted for position i.
DetectorActionsFor(i) ==
    SelectSeq(exit_detector_actions, LAMBDA a : a.position_id = scan_positions[i].id)

\* Position i lacks a current price, or its stop-loss or take-profit
\* fraction is missing.
Incomplete(i) ==
    \/ scan_positions[i].pair \notin DOMAIN current_prices
    \/ scan_positions[i].stop_loss_pct = NoneVal
    \/ scan_positions[i].take_profit_pct = NoneVal

\* C18: in an exit scan a position without a current price, or with a
\* missing stop-loss or take-profit fraction, yields no CloseAction, and the
\* other positions of the scan are evaluated as they would be alone.
C18_IncompletePositionsSkipped ==
    \A i \in 1..Len(scan_positions) :
        /\ (LogicRan /\ Incomplete(i)) => LogicActionsFor(i) = <<>>
        /\ (DetectorRan /\ Incomplete(i)) => DetectorActionsFor(i) = <<>>
        /\ (LogicRan /\ ~Incomplete(i)) =>
               LogicActionsFor(i) =
                   check_exits(<<scan_positions[i]>>, current_prices, regime_changes)
        /\ (DetectorRan /\ ~Incomplete(i)) =>
               DetectorActionsFor(i) =
                   check_all_exits(<<scan_positions[i]>>, current_prices)

-----------------------------------------------------------------------------
(* Claims about the entry pipeline *)

Evaluated == entry_result # NoFn

\* The pipeline got as far as the expected-value threshold.
Scored == Evaluated /\ entry_result.ev # NoneVal

\* C8: when every earlier step of evaluate_entry succeeds, an OpenAction is
\* emitted if and only if ev >= min_ev (the boundary ev == min_ev is admitted),
\* and the emitted action carries that EV.
C8_AdmittedIffEvAtLeastMin ==
    Scored =>
        /\ (entry_result.action # <<>>) <=> FLe(entry_input.min_ev, entry_result.ev)
        /\ entry_result.action # <<>> => entry_result.action[1].ev = entry_result.ev

\* An evaluation whose EV equals the threshold exactly and that was admitted.
C8_Witness ==
    /\ Scored
    /\ entry_result.ev = entry_input.min_ev
    /\ entry_result.action # <<>>
    /\ entry_result.action[1].size # Zero

\* C9: the friction the pipeline uses, and records in an emitted OpenAction,
\* always lies in [0, 0.10], whether it came from the friction model or from
\* the base-friction fallback.
C9_FrictionWithinCap ==
    (Evaluated /\ entry_result.friction # NoneVal) =>
        /\ FLe(Zero, entry_result.friction)
        /\ FLe(entry_result.friction, Lit(1, 10))
        /\ entry_result.action # <<>> =>
               /\ FLe(Zero, entry_result.action[1].friction)
               /\ FLe(entry_result.action[1].friction, Lit(1, 10))

\* C10: a pair whose regime is not TREND or RANGE yields no OpenAction, and
\* its evaluation stops at the regime classification: the edge predictor, the
\* sizer, the friction estimate and the EV calculation are not run.
C10_RegimeGateFirst ==
    Evaluated =>
        /\ entry_result.steps[1] = "classify_regime"
        /\ entry_result.regime \notin {"TREND", "RANGE"} =>
               /\ entry_result.action = <<>>
               /\ entry_result.steps = <<"classify_regime">>
        /\ entry_result.action # <<>> =>
               entry_result.action[1].regime \in {"TREND", "RANGE"}

\* An evaluation that the regime gate alone stopped: the model answered with
\* a label that is neither tradable nor NO_TRADE, and every later step would
\* have admitted the trade.
C10_Witness ==
    /\ Evaluated
    /\ entry_result.regime = "CHOP"
    /\ entry_result.action = <<>>
    /\ entry_input.edge_model = FloatPred(One)
    /\ entry_input.friction_model = FloatPred(Zero)
    /\ entry_input.capital = FromInt(1000)
    /\ entry_input.sl_pct = DefaultSlPct
    /\ entry_input.reserves = <<FromInt(1000), FromInt(1000)>>

\* C12: evaluate_entry never raises to its caller: it returns an OpenAction
\* or no action, and a failure inside it (zero position size, missing
\* reserves, a raising collaborator) yields no action.
C12_EvaluateEntryNeverRaises ==
    Evaluated =>
        /\ ~entry_result.raised
        /\ Len(entry_result.action) <= 1
        /\ entry_result.caught => entry_result.action = <<>>

\* A call in which the friction step raised on missing reserves.
C12_Witness ==
    /\ Evaluated
    /\ entry_input.reserves = <<>>
    /\ entry_result.caught
    /\ entry_result.action = <<>>

ModelFails(model) == model.kind \in {"absent", "raises"}

\* C13: a failing predictor is replaced by its default and the evaluation
\* goes on: an absent or raising edge predictor gives p = 0.5 and the
\* pipeline continues to sizing and, unless the friction step fails, to the
\* EV; an absent or raising regime predictor gives NO_TRADE; an absent or
\* raising friction predictor gives the base friction.
C13_PredictorFailureUsesDefault ==
    Evaluated =>
        /\ (ModelFails(entry_input.edge_model) /\ is_tradable(entry_result.regime)) =>
               /\ entry_result.p = Lit(1, 2)
               /\ \E i \in DOMAIN entry_result.steps :
                      entry_result.steps[i] = "calculate_position_size"
               /\ ~entry_result.caught =>
                      /\ entry_result.steps[Len(entry_result.steps)] = "calculate_ev"
                      /\ entry_result.ev # NoneVal
        /\ ModelFails(entry_input.regime_model) => entry_result.regime = "NO_TRADE"
        /\ (ModelFails(entry_input.friction_model)
              /\ entry_result.friction # NoneVal) =>
               entry_result.friction = entry_result.base_friction

\* The edge and friction predictors both fail and the trade is still scored
\* and admitted with p = 0.5 and the base friction.
C13_Witness ==
    /\ Evaluated
    /\ entry_input.edge_model = Raises
    /\ entry_input.friction_model = Absent
    /\ entry_result.action # <<>>
    /\ entry_result.action[1].p = Lit(1, 2)
    /\ entry_result.action[1].friction = entry_result.base_friction
    /\ entry_result.action[1].size # Zero

-----------------------------------------------------------------------------
(* Claims about the pure functions *)

Classified == pure_call # NoFn /\ pure_call.fn = "classify_regime"

LiquidityOverride ==
    pure_call.liquidity # NoneVal /\ FLt(pure_call.liquidity, MinLiquidityUsd)

VolatilityOverride ==
    pure_call.volatility # NoneVal /\ FLt(Lit(1, 10), pure_call.volatility)

\* C11: classify_regime answers NO_TRADE whenever liquidity is supplied and
\* below min_liquidity_usd, and whenever volatility is supplied and above
\* 0.10, whatever label the predictor returns; when neither override fires
\* and the predictor was asked, its label is returned unchanged.
C11_OverridesIndependentOfLabel ==
    Classified =>
        /\ LiquidityOverride => pure_call.result = "NO_TRADE"
        /\ VolatilityOverride => pure_call.result = "NO_TRADE"
        /\ (~LiquidityOverride /\ ~VolatilityOverride
              /\ ~FeaturesMissing(pure_call.window)) =>
               pure_call.result = predict_regime(pure_call.model)

\* The predictor says TREND, liquidity is fine, and the volatility override
\* alone turns the answer into NO_TRADE.
C11_Witness ==
    /\ Classified
    /\ predict_regime(pure_call.model) = "TREND"
    /\ ~FeaturesMissing(pure_call.window)
    /\ ~LiquidityOverride
    /\ VolatilityOverride
    /\ pure_call.result = "NO_TRADE"

Sized == pure_call # NoFn /\ pure_call.fn = "calculate_position_size"

\* C19: for capital > 0 and 0 < sl_pct <= 1 the position size lies in
\* [capital*min_pct, capital*max_pct], for every risk configuration.
C19_SizeWithinBand ==
    (Sized /\ FLt(Zero, pure_call.capital) /\ FLt(Zero, pure_call.stop_loss_pct)
       /\ FLe(pure_call.stop_loss_pct, One)) =>
        /\ FLe(FMul(pure_call.capital, pure_call.sizer.min_position_pct),
               pure_call.result)
        /\ FLe(pure_call.result,
               FMul(pure_call.capital, pure_call.sizer.max_position_pct))

Slipped == pure_call # NoFn /\ pure_call.fn = "calculate_base_slippage"

ZeroReserve == IsZero(pure_call.reserve_in) \/ IsZero(pure_call.reserve_out)

\* C20: when reserve_in or reserve_out is zero, calculate_base_slippage
\* returns exactly 0.10 for every amount and fee and divides by nothing.
C20_IlliquidPoolGuard ==
    (Slipped /\ ZeroReserve) =>
        /\ ~pure_call.raised
        /\ pure_call.result = Lit(1, 10)

\* A zero amount against a pool with only reserve_in at zero, at a fee other
\* than the default.
C20_Witness ==
    /\ Slipped
    /\ IsZero(pure_call.reserve_in)
    /\ ~IsZero(pure_call.reserve_out)
    /\ IsZero(pure_call.amount_in)
    /\ pure_call.fee_bps = 100
    /\ pure_call.result = Lit(1, 10)

FrictionCalled == pure_call # NoFn /\ pure_call.fn = "calculate_base_friction"

\* C21: calculate_base_friction never fails, and for a zero amount against
\* non-zero reserves it returns the pure fee fraction fee_bps/10000.
C21_ZeroSizeFrictionIsFee ==
    FrictionCalled =>
        /\ ~pure_call.raised
        /\ (IsZero(pure_call.amount_in) /\ ~IsZero(pure_call.reserve_in)
              /\ ~IsZero(pure_call.reserve_out)) =>
               pure_call.result = Lit(pure_call.fee_bps, 10000)

EvCalled == pure_call # NoFn /\ pure_call.fn = "calculate_ev"

\* The probability calculate_ev works with: p brought into [0, 1].
ClampedP(p) == IF FLt(p, Zero) THEN Zero ELSE IF FLt(One, p) THEN One ELSE p

\* C22: calculate_ev always returns a value: with a negative win or loss amount
\* it is negative infinity, which the threshold test of evaluate_entry rejects
\* for every min_ev; otherwise it is q*W - (1-q)*L - F for the probability q
\* obtained by clamping p into [0, 1].
C22_InvalidInputsRecovered ==
    EvCalled =>
        LET q == ClampedP(pure_call.p)
        IN  /\ FLe(Zero, q) /\ FLe(q, One)
            /\ IF FLt(pure_call.win_amount, Zero) \/ FLt(pure_call.loss_amount, Zero)
               THEN pure_call.result = NegInf /\ ~pure_call.admitted
               ELSE pure_call.result =
                        FSub(FSub(FMul(q, pure_call.win_amount),
                                  FMul(FSub(One, q), pure_call.loss_amount)),
                             pure_call.friction)

\* A probability above 1 was clamped and the EV computed from it.
C22_Witness ==
    /\ EvCalled
    /\ pure_call.p = Lit(3, 2)
    /\ pure_call.win_amount = FromInt(3)
    /\ pure_call.loss_amount = FromInt(3)
    /\ pure_call.result = FSub(FromInt(3), pure_call.friction)

EvCalledTwice == pure_call # NoFn /\ pure_call.fn = "calculate_ev_twice"

NonNegativeAmounts(args) ==
    FLe(Zero, args.win_amount) /\ FLe(Zero, args.loss_amount)

\* C23: with non-negative win and loss amounts, raising p or W never lowers
\* the EV and raising L or F never raises it, the other arguments being equal.
C23_EvMonotone ==
    (EvCalledTwice /\ NonNegativeAmounts(pure_call.first)
        /\ NonNegativeAmounts(pure_call.second)
        /\ FLe(pure_call.first[pure_call.changed],
               pure_call.second[pure_call.changed])) =>
        IF pure_call.changed \in {"p", "win_amount"}
        THEN FLe(pure_call.first_result, pure_call.second_result)
        ELSE FLe(pure_call.second_result, pure_call.first_result)

\* A larger loss amount gave a strictly smaller EV at a probability below 1.
C23_Witness ==
    /\ EvCalledTwice
    /\ pure_call.changed = "loss_amount"
    /\ pure_call.first.p = Lit(1, 3)
    /\ pure_call.first.win_amount = FromInt(3)
    /\ pure_call.first.loss_amount = Lit(1, 10)
    /\ pure_call.second.loss_amount = FromInt(3)
    /\ FLt(pure_call.second_result, pure_call.first_result)

-----------------------------------------------------------------------------
(* Claims about the live loop *)

EntryEvents == {"in_cooldown", "cooldown_over"}

Count(ev) == Cardinality({i \in DOMAIN tick_trace : tick_trace[i].ev = ev})

EntryPhaseBegun ==
    tick_pc = "entry" \/ \E i \in DOMAIN tick_trace : tick_trace[i].ev \in EntryEvents

\* C14: within one tick every close action of the exit scan is executed
\* before the entry phase begins: no cooldown check of the tick precedes a
\* close of the tick, and when the entry phase begins no close is pending.
C14_ExitsBeforeEntries ==
    /\ \A i, j \in DOMAIN tick_trace :
           (tick_trace[i].ev \in EntryEvents /\ tick_trace[j].ev = "close") => j < i
    /\ EntryPhaseBegun =>
           /\ exit_actions = <<>>
           /\ \A i \in DOMAIN tick_trace :
                  tick_trace[i].ev = "scan" => Count("close") = tick_trace[i].id

\* A tick that executed two closes and then checked a cooldown.
C14_Witness ==
    /\ tick_pc = "done"
    /\ Count("close") = 2
    /\ Count("cooldown_over") >= 1

StopRequested == shutdown_requested \/ stop_pc # "idle"

LoopEnded == sched_pc \in {"stopped", "terminated"}

\* C15: the loop does not end because of a tick's error: run_loop ends only
\* after a stop was requested, and after a tick that failed the next tick is
\* eventually started unless a stop is requested.
C15_FailedTickDoesNotStopLoop ==
    /\ [](LoopEnded => StopRequested)
    /\ (sched_pc = "callback" /\ tick_pc # "tvl" /\ TickFailed)
           ~> (tick_pc = "tvl" \/ StopRequested)

\* A tick started right after a tick that failed, with no stop requested.
C15_Witness ==
    /\ tick_pc = "tvl"
    /\ tick_trace[1].id = 1
    /\ ~StopRequested

TickRunning == sched_pc = "callback" /\ tick_pc \notin {"done", "exit"}

\* C16: a shutdown request is honoured only between ticks: no tick is
\* started once shutdown_requested is set, a tick in flight is left only by
\* running to its end, ticks do not overlap, a tick in flight when the
\* request is there completes, and run_loop eventually returns.
C16_ShutdownOnlyBetweenTicks ==
    /\ [][shutdown_requested => ~(sched_pc # "callback" /\ sched_pc' = "callback")]_vars
    /\ [][TickRunning => sched_pc' = "callback"]_vars
    /\ [][(tick_pc # "tvl" /\ tick_pc' = "tvl") =>
              (tick_pc \in {"idle", "done"} /\ sched_pc = "test")]_vars
    /\ (shutdown_requested /\ TickRunning) ~> (tick_pc = "done")
    /\ shutdown_requested ~> (sched_pc = "stopped")

\* The request has arrived while a tick is between two of its closes.
C16_Witness ==
    /\ shutdown_requested
    /\ sched_pc = "callback"
    /\ tick_pc = "close"
    /\ Count("close") = 1
    /\ exit_actions # <<>>

-----------------------------------------------------------------------------
(* Claims about the cooldowns *)

Checked == cooldown_check # NoFn

CooldownSet == cooldown_check.last_trade >= 0

Elapsed == cooldown_check.at - cooldown_check.last_trade

\* C17: for every pair and every window, is_in_cooldown is true immediately
\* after set_cooldown, false once window seconds have elapsed since it, and
\* false for a pair whose cooldown was never set.
C17_CooldownWindow ==
    Checked =>
        /\ (CooldownSet /\ Elapsed = 0) => cooldown_check.result
        /\ (CooldownSet /\ Elapsed >= cooldown_check.window) => ~cooldown_check.result
        /\ ~CooldownSet => ~cooldown_check.result

\* C17 as amended: for every window > 0, is_in_cooldown is true immediately
\* after set_cooldown; for every window it is false once window seconds
\* have elapsed, and false for a pair whose cooldown was never set.
C17_CooldownPositiveWindow ==
    Checked =>
        /\ (CooldownSet /\ Elapsed = 0 /\ cooldown_check.window > 0) =>
               cooldown_check.result
        /\ (CooldownSet /\ Elapsed >= cooldown_check.window) => ~cooldown_check.result
        /\ ~CooldownSet => ~cooldown_check.result

\* A check right after set_cooldown answers true, and the cooldown of the
\* other pair has run out.
C17_Witness ==
    /\ Checked
    /\ CooldownSet
    /\ Elapsed = 0
    /\ cooldown_check.window = 2
    /\ cooldown_check.result
    /\ \E other \in DOMAIN cooldowns : now - cooldowns[other] >= 2

\* The ids of EngineState.open_positions
OpenIds == {scan_positions[i].id : i \in DOMAIN scan_positions}

\* The ids _execute_close was called for in the tick
ClosedInTick ==
    {tick_trace[i].id : i \in {j \in DOMAIN tick_trace : tick_trace[j].ev = "close"}}

\* C24: once _execute_close has run for a position id, that id is no longer
\* in EngineState.open_positions (so no later scan emits a close for it).
C24_ClosedIdLeavesOpenPositions == ClosedInTick \cap OpenIds = {}

\* sum(...) over a sequence of floats, left to right
RECURSIVE SumSeq(_)
SumSeq(xs) ==
    IF xs = <<>> THEN Zero
    ELSE FAdd(SumSeq(SubSeq(xs, 1, Len(xs) - 1)), xs[Len(xs)])

\* sum(...) of the sizes of the positions stored under ids
RECURSIVE SumSizes(_)
SumSizes(ids) ==
    IF ids = {} THEN Zero
    ELSE LET id == CHOOSE i \in ids : TRUE
         IN  FAdd(SumSizes(ids \ {id}), open_positions[id].size)

OpenSizes == SumSizes(DOMAIN open_positions)

LedgerPnl == SumSeq([i \in DOMAIN closed_trades |-> closed_trades[i].pnl])

\* C25: in the simulated portfolio, balance plus the sizes of the open
\* positions equals initial_balance plus total_pnl, and total_pnl equals the
\* sum of the pnl of the closed trades.
C25_PortfolioConservation ==
    mode = "sandbox" =>
        /\ FAdd(balance, OpenSizes) = FAdd(initial_balance, total_pnl)
        /\ total_pnl = LedgerPnl

\* C26: the simulated balance is never negative.
C26_BalanceNonNegative == mode = "sandbox" => FLe(Zero, balance)

\* The supplied pool is below pairs.min_liquidity_usd.
LiquidityTooLow ==
    /\ Len(entry_input.reserves) = 2
    /\ FLt(PoolLiquidity(entry_input.reserves, entry_input.price), MinLiquidityUsd)

\* The return volatility of the supplied window is above 0.10.
VolatilityTooHigh == FLt(Lit(1, 10), WindowVolatility(entry_input.window))

\* C27: evaluate_entry emits no OpenAction when the pool's USD liquidity is
\* below pairs.min_liquidity_usd, nor when the window's return volatility is
\* above 0.10.
C27_OverridesEnforcedAtEntry ==
    (Evaluated /\ (LiquidityTooLow \/ VolatilityTooHigh)) =>
        entry_result.action = <<>>

\* C29: with min_ev > 0 every OpenAction emitted by evaluate_entry has
\* size > 0: a size of zero (sl_pct <= 0, or no capital) and a negative size
\* (negative capital) end the pipeline with no action.
C29_EmittedSizePositive ==
    (Evaluated /\ FLt(Zero, entry_input.min_ev)) =>
        /\ entry_result.action # <<>> => FLt(Zero, entry_result.action[1].size)
        /\ (FLe(entry_input.sl_pct, Zero) \/ FLe(entry_input.capital, Zero)) =>
               entry_result.action = <<>>

\* The sizer returned 0 for sl_pct = 0, the pipeline scored the empty trade
\* at EV 0 and rejected it against a positive threshold.
C29_Witness ==
    /\ Scored
    /\ FLt(Zero, entry_input.min_ev)
    /\ entry_input.sl_pct = Zero
    /\ entry_input.capital = FromInt(1000)
    /\ entry_result.ev = Zero
    /\ entry_result.action = <<>>

\* The capital read of the tick found no capital.
TickSkipped == \E i \in DOMAIN tick_trace : tick_trace[i].ev = "skipped"

\* C28: a tick whose capital read is unavailable or <= 0 returns at once: it
\* reads no price, emits and executes no close, checks no cooldown, and
\* leaves EngineState as it was.
C28_NoCapitalSkipsTick ==
    /\ [](TickSkipped =>
             /\ Len(tick_trace) = 2
             /\ tick_trace[1].ev = "start"
             /\ tick_pc = "done"
             /\ exit_actions = <<>>
             /\ pair_index = 0)
    /\ [][TickSkipped' =>
              (scan_positions' = scan_positions /\ cooldowns' = cooldowns)]_vars

\* A tick was skipped although an open position is at its stop-loss price.
C28_Witness ==
    /\ TickSkipped
    /\ tick_pc = "done"
    /\ sched_pc = "after"
    /\ check_all_exits(scan_positions, [pr \in {"ETH/USDC"} |-> FromInt(99)]) # <<>>

\* The pairs the cooldown check of the tick passed over.
SkippedPairs ==
    {tick_trace[i].pair :
        i \in {j \in DOMAIN tick_trace : tick_trace[j].ev = "in_cooldown"}}

\* C30: no step of a live tick writes EngineState.cooldowns: the map keeps
\* the value it had when the loop was started, and the tick's cooldown check
\* passes over a pair only if its cooldown was set from outside the loop.
C30_TickNeverWritesCooldowns ==
    /\ [][cooldowns' = cooldowns]_vars
    /\ [](cooldowns \in LoopCooldowns)
    /\ [](SkippedPairs \subseteq DOMAIN cooldowns)

\* A tick executed a close on ETH/USDC and then found that pair out of
\* cooldown, and SOL/USDC in the cooldown set before the loop.
C30_Witness ==
    /\ tick_pc = "done"
    /\ Count("close") >= 1
    /\ \E i \in DOMAIN tick_trace :
           tick_trace[i] = Event("cooldown_over", 0, "ETH/USDC")
    /\ SkippedPairs = {"SOL/USDC"}


====
